---- MODULE Spec2Model ----
(***************************************************************************)
(* Books API (Express + Mongoose + Multer).                                *)
(*                                                                         *)
(* The service of src/index.js, together with the Cloudinary variant of    *)
(* the same service (src/unnamed/part_001), as a state machine: the book   *)
(* collection, the upload directory, the cloud image store, the requests   *)
(* in flight with the position of each in its middleware chain, and the    *)
(* file deletions whose callbacks have not run yet.                        *)
(*                                                                         *)
(* Strings are sequences of one-character strings, so that trimming,       *)
(* length checks, prefix tests and parseInt are computed, not assumed.     *)
(***************************************************************************)
EXTENDS Integers, Sequences, FiniteSets, TLC

VARIABLES
    books,      \* the Book collection, in insertion order
    nextId,     \* the ObjectId the driver generates next
    files,      \* uploads/ : file name -> request whose bytes it holds
    cloud,      \* Cloudinary : public_id -> request whose bytes it holds
    reqs,       \* request -> its record (inputs, position, response)
    pending,    \* deletions issued whose callback has not run yet
    errlog,     \* console.error lines of failed deletions
    now,        \* the last value Date.now() returned
    cloudName   \* process.env.CLOUDINARY_CLOUD_NAME is set

vars == <<books, nextId, files, cloud, reqs, pending, errlog, now, cloudName>>

----------------------------------------------------------------------------
(* Bounds of the model *)

\* requests the service receives in one behaviour
MaxReqs == 2
\* values Date.now() takes: 0..MaxClock
MaxClock == 1
\* the most books the collection holds when the service starts
MaxSeed == 47
\* the books the collection holds when the search and sort queries start
QuerySeed == 3

----------------------------------------------------------------------------
(* Program constants *)

TitleMax == 200
AuthorMax == 100
DescriptionMin == 10
DescriptionMax == 1000
FileSizeLimit == 5242880
RandomMax == 1000000000
ObjectIdLen == 24

----------------------------------------------------------------------------
(* Strings *)

\* an absent string, and an absent object
None == "undefined"
Undefined == [undefined |-> TRUE]

Rep(c, n) == [i \in 1..n |-> c]

IsSpace(c) == c \in {" ", "\t", "\n"}

RECURSIVE FirstNonSpace(_, _)
FirstNonSpace(s, i) ==
    IF i > Len(s) \/ ~IsSpace(s[i]) THEN i ELSE FirstNonSpace(s, i + 1)

RECURSIVE LastNonSpace(_, _)
LastNonSpace(s, i) ==
    IF i = 0 \/ ~IsSpace(s[i]) THEN i ELSE LastNonSpace(s, i - 1)

\* String.prototype.trim / validator's trim(): both ends, whitespace only
Trim(s) == SubSeq(s, FirstNonSpace(s, 1), LastNonSpace(s, Len(s)))

StartsWith(s, p) == Len(s) >= Len(p) /\ SubSeq(s, 1, Len(p)) = p

Str_image == <<"i", "m", "a", "g", "e", "/">>

----------------------------------------------------------------------------
(* The response envelope: res.status(s).json({success, message, ...}) *)

Resp(status, message, errors, data, pagination) ==
    [status |-> status, success |-> (status < 400), message |-> message,
     errors |-> errors, data |-> data, pagination |-> pagination]

NoResp == Resp(0, None, <<>>, Undefined, Undefined)

----------------------------------------------------------------------------
(* Validation layer: express-validator chains, run in the order written:   *)
(* both validators see the raw value, the sanitizer trim() comes last.     *)
(* A field missing from the form is validated as the empty string.         *)

notEmpty(v) == Len(v) > 0

isLength(v, min, max) == Len(v) >= min /\ Len(v) <= max

ChainErrors(field, v, min, max, required, between) ==
    (IF notEmpty(v) THEN <<>> ELSE <<[path |-> field, msg |-> required]>>)
    \o (IF isLength(v, min, max) THEN <<>>
        ELSE <<[path |-> field, msg |-> between]>>)

addBookValidation(body) ==
    ChainErrors("title", body.title, 1, TitleMax,
                "Title is required",
                "Title must be between 1 and 200 characters")
    \o ChainErrors("author", body.author, 1, AuthorMax,
                   "Author is required",
                   "Author must be between 1 and 100 characters")
    \o ChainErrors("description", body.description,
                   DescriptionMin, DescriptionMax,
                   "Description is required",
                   "Description must be between 10 and 1000 characters")

\* req.body after the chains' sanitizers ran
Sanitized(body) ==
    [title |-> Trim(body.title), author |-> Trim(body.author),
     description |-> Trim(body.description)]

----------------------------------------------------------------------------
(* Book schema: the setters (trim) run when the document is built, the     *)
(* validators (required, maxlength) when it is saved.                      *)

SchemaCast(data) ==
    [title |-> Trim(data.title), author |-> Trim(data.author),
     description |-> Trim(data.description), image |-> data.image]

\* a schema path without `required`
MaxLengthOnly(field, v, max) ==
    IF Len(v) > max THEN <<[field |-> field, message |-> "maxlength"]>>
    ELSE <<>>

PathErrors(field, v, max) ==
    IF Len(v) = 0 THEN <<[field |-> field, message |-> "required"]>>
    ELSE IF Len(v) > max THEN <<[field |-> field, message |-> "maxlength"]>>
    ELSE <<>>

bookSchema(doc) ==
    PathErrors("title", doc.title, TitleMax)
    \o PathErrors("author", doc.author, AuthorMax)
    \o PathErrors("description", doc.description, DescriptionMax)

----------------------------------------------------------------------------
(* Image storage: multer with disk storage, or Cloudinary storage when     *)
(* CLOUDINARY_CLOUD_NAME is set.                                           *)

\* Math.round(Math.random() * 1e9) ranges over 0..RandomMax; its two ends
RandomSamples == {0, RandomMax}

fileFilter(file) == StartsWith(file.mimetype, Str_image)

\* an upload without limits.fileSize
NoLimit(file) == FALSE

\* limits.fileSize: the file part has more bytes than the limit
OverLimit(file) == file.size > FileSizeLimit

\* "book-" + Date.now() + "-" + random + extname(originalname)
filename(ts, rnd, file) ==
    [base |-> "book", ts |-> ts, rnd |-> rnd, ext |-> file.ext]

\* `book-${Date.now()}-${random}`, stored under the folder "books-api"
public_id(ts, rnd) ==
    [folder |-> "books-api", base |-> "book", ts |-> ts, rnd |-> rnd]

Put(store, name, r) == (name :> r) @@ store

Remove(store, name) == [n \in DOMAIN store \ {name} |-> store[n]]

\* req.file as the storage engine's _handleFile fills it
DiskFile(name) ==
    [path |-> [dir |-> "uploads/", name |-> name], filename |-> name, public_id |-> Undefined]

CloudinaryFile(pid) ==
    [path |-> [secure_url |-> pid], filename |-> pid,
     public_id |-> Undefined]

\* The image reference the create handler stores on the book
ImageRef(cloudinary, file) ==
    IF cloudinary THEN file.path
    ELSE [dir |-> "/uploads/", name |-> file.filename]

\* handleValidationErrors without its clean-up of the uploaded file
KeepUpload(r, file) == {}

\* The deletions handleValidationErrors issues for an uploaded file
ValidationCleanup(r, file) ==
    (IF file.path # Undefined
     THEN {[req |-> r, op |-> "unlink", target |-> file.path]} ELSE {})
    \cup (IF file.public_id # Undefined
          THEN {[req |-> r, op |-> "destroy", target |-> file.public_id]}
          ELSE {})

\* a catch block without its clean-up of the uploaded file
NoSaveCleanup(r, cloudinary, file) == {}

\* The deletion the create handler's catch block issues
SaveFailureCleanup(r, cloudinary, file) ==
    IF cloudinary /\ file.public_id # Undefined
    THEN {[req |-> r, op |-> "destroy", target |-> file.public_id]}
    ELSE IF file.path # Undefined
    THEN {[req |-> r, op |-> "unlink", target |-> file.path]}
    ELSE {}

\* fs.unlink(path) finds a file to remove
UnlinkFinds(path) == "dir" \in DOMAIN path /\ path.name \in DOMAIN files

----------------------------------------------------------------------------
(* Requests.  `in` is the population the clients of a specification draw   *)
(* their requests from: in.bodies (form fields), in.files (file parts),    *)
(* in.ids (the :id parameter), in.queries (list query strings).            *)

Reqs == 1..MaxReqs

Idle ==
    [kind |-> "none", pc |-> "idle", input |-> Undefined,
     file |-> Undefined, body |-> Undefined, resp |-> NoResp, queries |-> 0,
     page |-> 0, limit |-> 0, sortBy |-> "", sortOrder |-> 0,
     totalBooks |-> 0, sent |-> 0]

\* requests arrive in the order of their numbers
MayArrive(r) ==
    /\ reqs[r].pc = "idle"
    /\ IF r = 1 THEN TRUE ELSE reqs[r - 1].pc # "idle"

\* res.status(...).json(...): one more response is sent
Answered(req, resp) ==
    [req EXCEPT !.pc = "done", !.resp = resp, !.sent = req.sent + 1]

\* a request is finished once it is answered and its deletions have run
Finished(r) ==
    reqs[r].pc = "done" /\ \A d \in pending : d.req # r

----------------------------------------------------------------------------
(* POST /api/books *)

\* upload.single("image"): the form has no file part
UploadNone(r, in) ==
    /\ MayArrive(r)
    /\ \E b \in in.bodies :
         reqs' = [reqs EXCEPT ![r] =
                    [Idle EXCEPT !.kind = "create", !.pc = "validate",
                                 !.input = [body |-> b, file |-> Undefined],
                                 !.body = b]]
    /\ UNCHANGED <<books, nextId, files, cloud, pending, errlog, now,
                   cloudName>>

\* upload.single("image"): a file part the fileFilter refuses; the error
\* goes to the global error handler
UploadRefused(r, in) ==
    /\ MayArrive(r)
    /\ \E b \in in.bodies, f \in in.files \ {Undefined} :
         /\ ~fileFilter(f)
         /\ reqs' = [reqs EXCEPT ![r] =
                       Answered([Idle EXCEPT !.kind = "create",
                                    !.input = [body |-> b, file |-> f]],
                                Resp(500, "Something went wrong!", <<>>,
                                     Undefined, Undefined))]
    /\ UNCHANGED <<books, nextId, files, cloud, pending, errlog, now,
                   cloudName>>

\* upload.single("image"): a file part over the size limit. The storage
\* engine is cut off while it writes; multer removes what was written and
\* fails with LIMIT_FILE_SIZE, which the global error handler answers.
UploadTooLarge(r, in) ==
    /\ MayArrive(r)
    /\ \E b \in in.bodies, f \in in.files \ {Undefined},
          t \in {now, now + 1} \cap (0..MaxClock), rnd \in RandomSamples :
         /\ fileFilter(f)
         /\ OverLimit(f)
         /\ now' = t
         /\ IF cloudName
            THEN /\ cloud' = Remove(cloud, public_id(t, rnd))
                 /\ files' = files
            ELSE /\ files' = Remove(files, filename(t, rnd, f))
                 /\ cloud' = cloud
         /\ reqs' = [reqs EXCEPT ![r] =
                       Answered([Idle EXCEPT !.kind = "create",
                                    !.input = [body |-> b, file |-> f]],
                                Resp(400,
                                     "File too large. Maximum size is 5MB.",
                                     <<>>, Undefined, Undefined))]
    /\ UNCHANGED <<books, nextId, pending, errlog, cloudName>>

\* upload.single("image"): a file part the storage engine stores, under a
\* name made of the clock and a random number; a file of that name is
\* overwritten
UploadStored(r, in) ==
    /\ MayArrive(r)
    /\ \E b \in in.bodies, f \in in.files \ {Undefined},
          t \in {now, now + 1} \cap (0..MaxClock), rnd \in RandomSamples :
         /\ fileFilter(f)
         /\ ~OverLimit(f)
         /\ now' = t
         /\ IF cloudName
            THEN /\ cloud' = Put(cloud, public_id(t, rnd), r)
                 /\ files' = files
            ELSE /\ files' = Put(files, filename(t, rnd, f), r)
                 /\ cloud' = cloud
         /\ reqs' = [reqs EXCEPT ![r] =
                       [Idle EXCEPT !.kind = "create", !.pc = "validate",
                          !.input = [body |-> b, file |-> f],
                          !.body = b,
                          !.file = IF cloudName
                                   THEN CloudinaryFile(public_id(t, rnd))
                                   ELSE DiskFile(filename(t, rnd, f))]]
    /\ UNCHANGED <<books, nextId, pending, errlog, cloudName>>

\* a handleValidationErrors that answers 400 without `return`, and calls
\* next() all the same
AnswersAndContinues(r, req, errors, next) ==
    IF errors # <<>>
    THEN /\ pending' = pending \cup
               (IF req.file # Undefined
                THEN ValidationCleanup(r, req.file) ELSE {})
         /\ reqs' = [reqs EXCEPT ![r] =
                       [Answered(req, Resp(400, "Validation failed", errors,
                                           Undefined, Undefined))
                           EXCEPT !.pc = next]]
    ELSE /\ pending' = pending
         /\ reqs' = [reqs EXCEPT ![r] = [req EXCEPT !.pc = next]]

\* handleValidationErrors: with errors, delete the uploaded file (the
\* deletion's callback runs later) and answer 400; without, call next()
handleValidationErrors(r, req, errors, next) ==
    IF errors # <<>>
    THEN /\ pending' = pending \cup
               (IF req.file # Undefined
                THEN ValidationCleanup(r, req.file) ELSE {})
         /\ reqs' = [reqs EXCEPT ![r] =
                       Answered(req, Resp(400, "Validation failed", errors,
                                          Undefined, Undefined))]
    ELSE /\ pending' = pending
         /\ reqs' = [reqs EXCEPT ![r] = [req EXCEPT !.pc = next]]

\* addBookValidation, handleValidationErrors
ValidateBook(r) ==
    /\ reqs[r].kind = "create" /\ reqs[r].pc = "validate"
    /\ handleValidationErrors(r,
           [reqs[r] EXCEPT !.body = Sanitized(reqs[r].body)],
           addBookValidation(reqs[r].body), "handler")
    /\ UNCHANGED <<books, nextId, files, cloud, errlog, now, cloudName>>

\* The document the route handler builds from req.body and req.file
BookData(req, cloudinary) ==
    [title |-> req.body.title, author |-> req.body.author,
     description |-> req.body.description,
     image |-> IF req.file # Undefined THEN ImageRef(cloudinary, req.file)
               ELSE Undefined]

\* a generator that hands out the same ObjectId again
SameObjectId(n) == n

\* new ObjectId(): the id the driver generates after the id n
ObjectId(n) == n + 1

\* a save that writes the document over the last one of the collection
saveOverLast(coll, doc) ==
    IF coll = <<>> THEN <<doc>> ELSE [coll EXCEPT ![Len(coll)] = doc]

\* book.save() of a new document: an insert into the collection
save(coll, doc) == Append(coll, doc)

\* The route handler: build the document, save it, answer 201; in the
\* catch block delete the uploaded file and answer 400 (a schema
\* ValidationError) or 500.  storeOk: the store accepts the write.
AddBook(r) ==
    /\ reqs[r].kind = "create" /\ reqs[r].pc = "handler"
    /\ \E storeOk \in BOOLEAN, t \in {now, now + 1} \cap (0..MaxClock) :
         LET doc == SchemaCast(BookData(reqs[r], cloudName))
             errors == bookSchema(doc)
             savedBook == [_id |-> nextId, title |-> doc.title,
                           author |-> doc.author,
                           description |-> doc.description,
                           image |-> doc.image,
                           createdAt |-> t, updatedAt |-> t]
             cleanup == IF reqs[r].file # Undefined
                        THEN SaveFailureCleanup(r, cloudName, reqs[r].file)
                        ELSE {}
         IN  IF errors # <<>>
             THEN /\ t = now /\ storeOk
                  /\ pending' = pending \cup cleanup
                  /\ reqs' = [reqs EXCEPT ![r] =
                        Answered(reqs[r],
                                 Resp(400, "Validation error", errors,
                                      Undefined, Undefined))]
                  /\ UNCHANGED <<books, nextId, now>>
             ELSE IF ~storeOk
             THEN /\ t = now
                  /\ pending' = pending \cup cleanup
                  /\ reqs' = [reqs EXCEPT ![r] =
                        Answered(reqs[r],
                                 Resp(500, "Internal server error", <<>>,
                                      Undefined, Undefined))]
                  /\ UNCHANGED <<books, nextId, now>>
             ELSE /\ books' = save(books, savedBook)
                  /\ nextId' = ObjectId(nextId)
                  /\ now' = t
                  /\ pending' = pending
                  /\ reqs' = [reqs EXCEPT ![r] =
                        Answered(reqs[r],
                                 Resp(201, "Book added successfully", <<>>,
                                      savedBook, Undefined))]
    /\ UNCHANGED <<files, cloud, errlog, cloudName>>

\* a callback that answers the caller again when the deletion has failed
DeleteErrorAnswered ==
    \E d \in pending :
        /\ pending' = pending \ {d}
        /\ IF d.op = "unlink"
           THEN IF UnlinkFinds(d.target)
                THEN /\ files' = Remove(files, d.target.name)
                     /\ UNCHANGED <<cloud, errlog, reqs>>
                ELSE /\ errlog' = errlog \cup {[req |-> d.req, op |-> d.op]}
                     /\ reqs' = [reqs EXCEPT ![d.req].resp.status = 500]
                     /\ UNCHANGED <<files, cloud>>
           ELSE /\ cloud' = Remove(cloud, d.target)
                /\ UNCHANGED <<files, errlog, reqs>>
        /\ UNCHANGED <<books, nextId, now, cloudName>>

\* The callback of fs.unlink / cloudinary.uploader.destroy: the file is
\* gone, or the error is logged
DeleteDone ==
    \E d \in pending :
        /\ pending' = pending \ {d}
        /\ IF d.op = "unlink"
           THEN IF UnlinkFinds(d.target)
                THEN /\ files' = Remove(files, d.target.name)
                     /\ UNCHANGED <<cloud, errlog>>
                ELSE /\ errlog' = errlog \cup {[req |-> d.req, op |-> d.op]}
                     /\ UNCHANGED <<files, cloud>>
           ELSE /\ cloud' = Remove(cloud, d.target)
                /\ UNCHANGED <<files, errlog>>
        /\ UNCHANGED <<books, nextId, reqs, now, cloudName>>

----------------------------------------------------------------------------
(* GET /api/books/:id *)

HexDigits ==
    <<"0", "1", "2", "3", "4", "5", "6", "7", "8", "9",
      "a", "b", "c", "d", "e", "f">>

UpperHex == <<"A", "B", "C", "D", "E", "F">>

IsHexChar(c) ==
    \/ \E i \in 1..Len(HexDigits) : HexDigits[i] = c
    \/ \E i \in 1..Len(UpperHex) : UpperHex[i] = c

\* validator's isMongoId: 24 hexadecimal characters
isMongoId(s) ==
    Len(s) = ObjectIdLen /\ \A i \in 1..Len(s) : IsHexChar(s[i])

\* a route without the isMongoId check on its id parameter
AnyIdValid(id) == <<>>

getBookValidation(id) ==
    IF isMongoId(id) THEN <<>>
    ELSE <<[path |-> "id", msg |-> "Invalid book ID format"]>>

\* ObjectId.toHexString(), for the ObjectIds the model generates
ToHexString(n) ==
    [k \in 1..ObjectIdLen |->
        IF ObjectIdLen - k >= 6 THEN "0"
        ELSE HexDigits[((n \div (16 ^ (ObjectIdLen - k))) % 16) + 1]]

LowerHexChar(c) ==
    IF \E i \in 1..Len(UpperHex) : UpperHex[i] = c
    THEN HexDigits[10 + (CHOOSE i \in 1..Len(UpperHex) : UpperHex[i] = c)]
    ELSE c

\* the cast of the id string to an ObjectId ignores the case of its digits
CastId(s) == [k \in 1..Len(s) |-> LowerHexChar(s[k])]

\* a lookup that finds no document
findNothing(id) == {}

\* Book.findById: the positions of the documents with that _id
findById(id) ==
    {i \in 1..Len(books) : ToHexString(books[i]._id) = CastId(id)}

\* getBookValidation, handleValidationErrors
ValidateId(r, in) ==
    /\ MayArrive(r)
    /\ \E id \in in.ids :
         handleValidationErrors(r,
             [Idle EXCEPT !.kind = "get", !.input = [id |-> id]],
             getBookValidation(id), "find")
    /\ UNCHANGED <<books, nextId, files, cloud, errlog, now, cloudName>>

\* The route handler: look the book up; 404 without one, 500 when the
\* lookup throws.  storeOk: the store answers the query.
GetBook(r) ==
    /\ reqs[r].kind = "get" /\ reqs[r].pc = "find"
    /\ \E storeOk \in BOOLEAN :
         LET asked == [reqs[r] EXCEPT !.queries = @ + 1]
             found == findById(reqs[r].input.id)
         IN  reqs' = [reqs EXCEPT ![r] =
               IF ~storeOk
               THEN Answered(asked, Resp(500, "Internal server error", <<>>,
                                         Undefined, Undefined))
               ELSE IF found = {}
               THEN Answered(asked, Resp(404, "Book not found", <<>>,
                                         Undefined, Undefined))
               ELSE Answered(asked,
                             Resp(200, None, <<>>,
                                  books[CHOOSE i \in found : TRUE],
                                  Undefined))]
    /\ UNCHANGED <<books, nextId, files, cloud, pending, errlog, now,
                   cloudName>>

----------------------------------------------------------------------------
(* GET /api/health, and the 404 handler of every other route *)

\* a health route that pings the store before it answers
HealthPingsStore(r) ==
    /\ MayArrive(r)
    /\ \E storeOk \in BOOLEAN :
         reqs' = [reqs EXCEPT ![r] =
                    Answered([Idle EXCEPT !.kind = "health", !.queries = 1],
                             IF storeOk
                             THEN Resp(200, "Books API is running", <<>>,
                                       Undefined, Undefined)
                             ELSE Resp(500, "Internal server error", <<>>,
                                       Undefined, Undefined))]
    /\ UNCHANGED <<books, nextId, files, cloud, pending, errlog, now,
                   cloudName>>

Health(r) ==
    /\ MayArrive(r)
    /\ reqs' = [reqs EXCEPT ![r] =
                  Answered([Idle EXCEPT !.kind = "health"],
                           Resp(200, "Books API is running", <<>>,
                                Undefined, Undefined))]
    /\ UNCHANGED <<books, nextId, files, cloud, pending, errlog, now,
                   cloudName>>

RouteNotFound(r) ==
    /\ MayArrive(r)
    /\ reqs' = [reqs EXCEPT ![r] =
                  Answered([Idle EXCEPT !.kind = "other"],
                           Resp(404, "Route not found", <<>>,
                                Undefined, Undefined))]
    /\ UNCHANGED <<books, nextId, files, cloud, pending, errlog, now,
                   cloudName>>

----------------------------------------------------------------------------
(* GET /api/books : the query string *)

Digits == <<"0", "1", "2", "3", "4", "5", "6", "7", "8", "9">>

IsDigit(c, radix) ==
    \E i \in 1..radix : HexDigits[i] = c \/ (i > 10 /\ UpperHex[i - 10] = c)

DigitValue(c) ==
    (CHOOSE i \in 1..Len(HexDigits) :
        HexDigits[i] = c \/ (i > 10 /\ UpperHex[i - 10] = c)) - 1

\* the digits of s from position i on, read in the radix
RECURSIVE ScanDigits(_, _, _, _, _)
ScanDigits(s, i, radix, acc, any) ==
    IF i <= Len(s) /\ IsDigit(s[i], radix)
    THEN ScanDigits(s, i + 1, radix, acc * radix + DigitValue(s[i]), TRUE)
    ELSE [nan |-> ~any, val |-> acc]

\* parseInt(string): leading white space, a sign, an 0x prefix, then the
\* longest run of digits; NaN without one
parseInt(s) ==
    LET i0 == FirstNonSpace(s, 1)
        signed == i0 <= Len(s) /\ s[i0] \in {"+", "-"}
        i1 == IF signed THEN i0 + 1 ELSE i0
        hex == i1 + 1 <= Len(s) /\ s[i1] = "0" /\ s[i1 + 1] \in {"x", "X"}
        n == IF hex THEN ScanDigits(s, i1 + 2, 16, 0, FALSE)
             ELSE ScanDigits(s, i1, 10, 0, FALSE)
    IN  IF signed /\ s[i0] = "-" THEN [n EXCEPT !.val = 0 - n.val] ELSE n

\* parseInt(x) || d : NaN and 0 are falsy
OrDefault(n, d) == IF n.nan \/ n.val = 0 THEN d ELSE n.val

QueryPage(q) == OrDefault(parseInt(q.page), 1)

QueryLimit(q) == OrDefault(parseInt(q.limit), 10)

QuerySortBy(q) == IF q.sortBy = "" THEN "createdAt" ELSE q.sortBy

\* a handler that sorts in descending order whatever it is asked
AlwaysDescending(q) == -1

QuerySortOrder(q) == IF q.sortOrder = "asc" THEN 1 ELSE -1

----------------------------------------------------------------------------
(* GET /api/books : the store's side of countDocuments and find *)

\* the characters of the model's strings, in code point order
Ascii ==
    <<"\t", "\n", " ", "(", ")", "+", "-", ".", "/">> \o Digits \o
    <<"A", "B", "C", "D", "E", "F", "G", "H", "I", "J", "K", "L", "M",
      "N", "O", "P", "Q", "R", "S", "T", "U", "V", "W", "X", "Y", "Z">> \o
    <<"a", "b", "c", "d", "e", "f", "g", "h", "i", "j", "k", "l", "m",
      "n", "o", "p", "q", "r", "s", "t", "u", "v", "w", "x", "y", "z">>

\* the function from the elements of s, from position i on, to their
\* positions in s
RECURSIVE Positions(_, _)
Positions(s, i) ==
    IF i > Len(s) THEN [c \in {} |-> 0]
    ELSE (s[i] :> i) @@ Positions(s, i + 1)

CodePoint == Positions(Ascii, 1)

Code(c) == CodePoint[c]

ToLower(c) ==
    IF Code(c) >= Code("A") /\ Code(c) <= Code("Z")
    THEN Ascii[Code(c) + 26] ELSE c

\* {$regex: search, $options: "i"} for the patterns of the model: literal
\* characters and "."; a pattern with an unclosed "(" does not compile
RegexError(search) ==
    \E k \in 1..Len(search) :
        search[k] = "(" /\ ~\E j \in (k + 1)..Len(search) : search[j] = ")"

RegexMatchAt(text, i, search) ==
    \A k \in 1..Len(search) :
        /\ i + k - 1 <= Len(text)
        /\ \/ search[k] = "." /\ text[i + k - 1] # "\n"
           \/ ToLower(search[k]) = ToLower(text[i + k - 1])

RegexTest(text, search) ==
    \E i \in 1..(Len(text) + 1) : RegexMatchAt(text, i, search)

\* searchQuery: {} without a search term, else the $or of the three fields
searchQuery(b, search) ==
    \/ search = <<>>
    \/ RegexTest(b.title, search)
    \/ RegexTest(b.author, search)
    \/ RegexTest(b.description, search)

Matching(search) ==
    LET Test(b) == searchQuery(b, search) IN SelectSeq(books, Test)

\* the sort key of a document: a string field, a date or id, or null for
\* a path the documents do not have
SortKey(b, sortBy) ==
    CASE sortBy = "title" -> [num |-> 0, str |-> b.title]
      [] sortBy = "author" -> [num |-> 0, str |-> b.author]
      [] sortBy = "description" -> [num |-> 0, str |-> b.description]
      [] sortBy = "createdAt" -> [num |-> b.createdAt, str |-> <<>>]
      [] sortBy = "updatedAt" -> [num |-> b.updatedAt, str |-> <<>>]
      [] sortBy = "_id" -> [num |-> b._id, str |-> <<>>]
      [] OTHER -> [num |-> 0, str |-> <<>>]

RECURSIVE StrLess(_, _)
StrLess(a, b) ==
    IF b = <<>> THEN FALSE
    ELSE IF a = <<>> THEN TRUE
    ELSE IF Head(a) # Head(b) THEN Code(Head(a)) < Code(Head(b))
    ELSE StrLess(Tail(a), Tail(b))

KeyLess(k1, k2) ==
    k1.num < k2.num \/ (k1.num = k2.num /\ StrLess(k1.str, k2.str))

\* b goes before x in the order asked for
Before(b, x, sortBy, sortOrder) ==
    IF sortOrder = 1
    THEN KeyLess(SortKey(b, sortBy), SortKey(x, sortBy))
    ELSE KeyLess(SortKey(x, sortBy), SortKey(b, sortBy))

\* b inserted into the sorted sequence s, after the documents it ties with
RECURSIVE Insert(_, _, _, _)
Insert(b, s, sortBy, sortOrder) ==
    IF s = <<>> THEN <<b>>
    ELSE IF Before(b, Head(s), sortBy, sortOrder) THEN <<b>> \o s
    ELSE <<Head(s)>> \o Insert(b, Tail(s), sortBy, sortOrder)

RECURSIVE Sorted(_, _, _)
Sorted(s, sortBy, sortOrder) ==
    IF s = <<>> THEN <<>>
    ELSE Insert(s[Len(s)],
                Sorted(SubSeq(s, 1, Len(s) - 1), sortBy, sortOrder),
                sortBy, sortOrder)

Abs(n) == IF n < 0 THEN 0 - n ELSE n

\* a cursor that skips one document more than it is asked to
PageSkipsOneMore(s, skip, limit) ==
    SubSeq(s, skip + 2, IF skip + 1 + Abs(limit) < Len(s)
                        THEN skip + 1 + Abs(limit) ELSE Len(s))

\* cursor.skip(skip).limit(limit): a negative limit is its absolute value
Page(s, skip, limit) ==
    SubSeq(s, skip + 1, IF skip + Abs(limit) < Len(s)
                        THEN skip + Abs(limit) ELSE Len(s))

\* Math.ceil(a / b) for a >= 0 and b # 0
Ceil(a, b) ==
    IF b > 0 THEN (a + b - 1) \div b ELSE 0 - (a \div (0 - b))

----------------------------------------------------------------------------
(* GET /api/books : the route handler.  It awaits the store twice, first   *)
(* for countDocuments, then for find; other requests run in between.       *)

\* up to `await Book.countDocuments(searchQuery)`.  storeOk: the store
\* answers the query.
ListCount(r, in) ==
    /\ MayArrive(r)
    /\ \E q \in in.queries, storeOk \in BOOLEAN :
         LET asked == [Idle EXCEPT !.kind = "list", !.input = q,
                                   !.page = QueryPage(q),
                                   !.limit = QueryLimit(q),
                                   !.sortBy = QuerySortBy(q),
                                   !.sortOrder = QuerySortOrder(q),
                                   !.queries = 1]
         IN  reqs' = [reqs EXCEPT ![r] =
               IF ~storeOk \/ RegexError(q.search)
               THEN Answered(asked, Resp(500, "Internal server error", <<>>,
                                         Undefined, Undefined))
               ELSE [asked EXCEPT !.pc = "find",
                                  !.totalBooks = Len(Matching(q.search))]]
    /\ UNCHANGED <<books, nextId, files, cloud, pending, errlog, now,
                   cloudName>>

\* The pagination object of the response
Pagination(page, limit, totalBooks) ==
    [currentPage |-> page,
     totalPages |-> Ceil(totalBooks, limit),
     totalBooks |-> totalBooks,
     hasNextPage |-> page < Ceil(totalBooks, limit),
     hasPrevPage |-> page > 1,
     limit |-> limit]

\* from `await Book.find(searchQuery).sort().skip().limit()` to the
\* response.  The store refuses a negative skip.
ListFind(r) ==
    /\ reqs[r].kind = "list" /\ reqs[r].pc = "find"
    /\ \E storeOk \in BOOLEAN :
         LET q == reqs[r].input
             page == reqs[r].page
             limit == reqs[r].limit
             skip == (page - 1) * limit
             asked == [reqs[r] EXCEPT !.queries = @ + 1]
             found == Page(Sorted(Matching(q.search), reqs[r].sortBy,
                                  reqs[r].sortOrder), skip, limit)
         IN  reqs' = [reqs EXCEPT ![r] =
               IF ~storeOk \/ skip < 0
               THEN Answered(asked, Resp(500, "Internal server error", <<>>,
                                         Undefined, Undefined))
               ELSE Answered(asked,
                             Resp(200, None, <<>>, found,
                                  Pagination(page, limit,
                                             reqs[r].totalBooks)))]
    /\ UNCHANGED <<books, nextId, files, cloud, pending, errlog, now,
                   cloudName>>

----------------------------------------------------------------------------
(* The populations of the specifications *)

Str_Emma == <<"E", "m", "m", "a">>
Str_Jane == <<"J", "a", "n", "e">>
Str_png == <<"i", "m", "a", "g", "e", "/", "p", "n", "g">>
Str_text == <<"t", "e", "x", "t", "/", "p", "l", "a", "i", "n">>

Body(title, description) ==
    [title |-> title, author |-> Str_Jane, description |-> description]

ImageFile == [mimetype |-> Str_png, size |-> 1, ext |-> ".png"]
LargeFile == [mimetype |-> Str_png, size |-> FileSizeLimit + 1, ext |-> ".png"]
TextFile == [mimetype |-> Str_text, size |-> 1, ext |-> ".txt"]
LargeTextFile ==
    [mimetype |-> Str_text, size |-> FileSizeLimit + 1, ext |-> ".txt"]

Query(page, limit, search, sortBy, sortOrder) ==
    [page |-> page, limit |-> limit, search |-> search, sortBy |-> sortBy,
     sortOrder |-> sortOrder]

\* the service as a whole: a valid form and one with a short description,
\* with and without a file; the id of the first book, an id of no book
\* and two malformed ones; the default listing, one with a negative page
\* and one with a limit of 101
ServicePopulation ==
    [bodies |-> {Body(Str_Emma, Rep("d", DescriptionMin)),
                 Body(Str_Emma, Rep("d", DescriptionMin - 1))},
     files |-> {Undefined, ImageFile, LargeFile, TextFile, LargeTextFile},
     ids |-> {ToHexString(1), ToHexString(2), <<"1">>,
              Rep("0", ObjectIdLen - 1) \o <<"g">>},
     queries |-> {Query(<<>>, <<>>, <<>>, "", ""),
                  Query(<<"-", "1">>, <<"0">>, <<>>, "", ""),
                  Query(<<"a">>, <<"1", "0", "1">>, <<>>, "", "")}]

\* the create route at the edges of its length rules, without files
LengthPopulation ==
    [bodies |-> {Body(Str_Emma, Rep("d", DescriptionMin)),
                 Body(<<" ">> \o Str_Emma \o <<" ", " ">>,
                      Rep("d", DescriptionMin)),
                 Body(Rep("t", TitleMax), Rep("d", DescriptionMin)),
                 Body(Rep("t", TitleMax + 1), Rep("d", DescriptionMin)),
                 Body(<<" ">>, Rep("d", DescriptionMin)),
                 Body(<<>>, Rep("d", DescriptionMin)),
                 [title |-> Str_Emma, author |-> Rep("a", AuthorMax),
                  description |-> Rep("d", DescriptionMin)],
                 [title |-> Str_Emma, author |-> Rep("a", AuthorMax + 1),
                  description |-> Rep("d", DescriptionMin)],
                 [title |-> Str_Emma, author |-> <<" ", " ">>,
                  description |-> Rep("d", DescriptionMin)],
                 Body(Str_Emma, Rep("d", DescriptionMin - 1)),
                 Body(Str_Emma, Rep("d", DescriptionMin - 1) \o <<" ">>),
                 Body(Str_Emma, Rep(" ", DescriptionMin)),
                 Body(Str_Emma, Rep("d", DescriptionMax)),
                 Body(Str_Emma, Rep("d", DescriptionMax + 1))},
     files |-> {Undefined},
     ids |-> {},
     queries |-> {}]

Str_5 == <<"5">>
Str_10 == <<"1", "0">>

\* listings of a seeded collection while a book is being added: the
\* default listing, the fifth page of ten, the second page of two by
\* title, the second match of a search
ListPopulation ==
    [bodies |-> {Body(Str_Emma, Rep("d", DescriptionMin))},
     files |-> {Undefined},
     ids |-> {},
     queries |-> {Query(<<>>, <<>>, <<>>, "", ""),
                  Query(Str_5, Str_10, <<>>, "", ""),
                  Query(<<"2">>, <<"2">>, <<>>, "title", "asc"),
                  Query(<<"2">>, <<"1">>, <<"B", "3">>, "createdAt", "asc")}]

\* first pages of a small collection: search terms in either case, for
\* each of the three fields, with the characters "." and "("; sort
\* fields and sort orders inside and outside the documented ones
QueryPopulation ==
    [bodies |-> {Body(Str_Emma, Rep("d", DescriptionMin))},
     files |-> {Undefined},
     ids |-> {},
     queries |-> {Query(<<>>, <<>>, <<"b", "3">>, "", ""),
                  Query(<<>>, <<>>, <<"J", "A", "N", "E">>, "", "desc"),
                  Query(<<>>, <<>>, <<".">>, "", ""),
                  Query(<<>>, <<>>, <<"(">>, "", ""),
                  Query(<<>>, <<>>, <<>>, "title", "asc"),
                  Query(<<>>, <<>>, <<>>, "title", "ASC"),
                  Query(<<>>, <<>>, <<>>, "description", "desc")}]

\* forms with an image: a valid one, and one invalid in each field (no
\* title, a title of one space, no author, a short description)
FieldPopulation ==
    [bodies |-> {Body(Str_Emma, Rep("d", DescriptionMin)),
                 Body(<<>>, Rep("d", DescriptionMin)),
                 Body(<<" ">>, Rep("d", DescriptionMin)),
                 [title |-> Str_Emma, author |-> <<>>,
                  description |-> Rep("d", DescriptionMin)],
                 Body(Str_Emma, Rep("d", DescriptionMin - 1))},
     files |-> {ImageFile},
     ids |-> {},
     queries |-> {}]

\* forms with a title or an author that is blank: one blank, absent; a
\* valid form beside them; without a file, with an image, with a file
\* that is not an image and with an image over the limit
BlankPopulation ==
    [bodies |-> {Body(Str_Emma, Rep("d", DescriptionMin)),
                 Body(<<" ">>, Rep("d", DescriptionMin)),
                 Body(<<>>, Rep("d", DescriptionMin)),
                 [title |-> Str_Emma, author |-> <<" ">>,
                  description |-> Rep("d", DescriptionMin)]},
     files |-> {Undefined, ImageFile, TextFile, LargeFile},
     ids |-> {},
     queries |-> {}]

\* one request for each path to a response: a valid form and one with a
\* short description, without a file, with an image and with a file the
\* upload refuses; the id of the first book and a malformed one; the
\* default listing
AnswerPopulation ==
    [bodies |-> {Body(Str_Emma, Rep("d", DescriptionMin)),
                 Body(Str_Emma, Rep("d", DescriptionMin - 1))},
     files |-> {Undefined, ImageFile, TextFile, LargeFile},
     ids |-> {ToHexString(1), <<"1">>},
     queries |-> {Query(<<>>, <<>>, <<>>, "", "")}]

----------------------------------------------------------------------------
(* Specifications *)

EmptyStore == [n \in {} |-> 0]

\* a collection left by earlier runs of the service: n valid books
SeedBook(i, n) ==
    [_id |-> i,
     title |-> <<"B", Digits[(((i * 37) % 100) \div 10) + 1],
                 Digits[((i * 37) % 10) + 1]>>,
     author |-> Str_Jane, description |-> Rep("d", DescriptionMin),
     image |-> Undefined, createdAt |-> i - n - 1, updatedAt |-> i - n - 1]

InitWith(cloudinary, n) ==
    /\ books = [i \in 1..n |-> SeedBook(i, n)]
    /\ nextId = n + 1
    /\ files = EmptyStore
    /\ cloud = EmptyStore
    /\ reqs = [r \in Reqs |-> Idle]
    /\ pending = {}
    /\ errlog = {}
    /\ now = 0
    /\ cloudName = cloudinary

Service(in) ==
    \/ \E r \in Reqs : UploadNone(r, in)
    \/ \E r \in Reqs : UploadRefused(r, in)
    \/ \E r \in Reqs : UploadTooLarge(r, in)
    \/ \E r \in Reqs : UploadStored(r, in)
    \/ \E r \in Reqs : ValidateBook(r)
    \/ \E r \in Reqs : AddBook(r)
    \/ DeleteDone
    \/ \E r \in Reqs : ValidateId(r, in)
    \/ \E r \in Reqs : GetBook(r)
    \/ \E r \in Reqs : ListCount(r, in)
    \/ \E r \in Reqs : ListFind(r)
    \/ \E r \in Reqs : Health(r)
    \/ \E r \in Reqs : RouteNotFound(r)

Init == InitWith(FALSE, 0)

Next == Service(ServicePopulation)

Spec == Init /\ [][Next]_vars

\* a request that has arrived is run on: each middleware and each handler
\* of the chain is called, each awaited query settles
Proceeds(r) ==
    \/ ValidateBook(r)
    \/ AddBook(r)
    \/ GetBook(r)
    \/ ListFind(r)

NextLive == Service(AnswerPopulation)

SpecLive ==
    /\ Init
    /\ [][NextLive]_vars
    /\ \A r \in Reqs : WF_vars(Proceeds(r))

InitCloud == InitWith(TRUE, 0)

SpecCloud == InitCloud /\ [][Next]_vars

\* the create route alone, at the edges of its length rules
NextLengths ==
    \/ \E r \in Reqs : UploadNone(r, LengthPopulation)
    \/ \E r \in Reqs : ValidateBook(r)
    \/ \E r \in Reqs : AddBook(r)

SpecLengths == Init /\ [][NextLengths]_vars

\* the list route over the collection earlier runs left, with creates
SeedSizes == {0, 3, MaxSeed}

InitList == \E n \in SeedSizes : InitWith(FALSE, n)

NextList ==
    \/ \E r \in Reqs : ListCount(r, ListPopulation)
    \/ \E r \in Reqs : ListFind(r)
    \/ \E r \in Reqs : UploadNone(r, ListPopulation)
    \/ \E r \in Reqs : ValidateBook(r)
    \/ \E r \in Reqs : AddBook(r)

SpecList == InitList /\ [][NextList]_vars

\* the search and sort parameters of the list route, with creates
InitQuery == InitWith(FALSE, QuerySeed)

NextQuery ==
    \/ \E r \in Reqs : ListCount(r, QueryPopulation)
    \/ \E r \in Reqs : ListFind(r)
    \/ \E r \in Reqs : UploadNone(r, QueryPopulation)
    \/ \E r \in Reqs : ValidateBook(r)
    \/ \E r \in Reqs : AddBook(r)

SpecQuery == InitQuery /\ [][NextQuery]_vars

\* the create route with an image, valid and invalid fields
NextFields ==
    \/ \E r \in Reqs : UploadStored(r, FieldPopulation)
    \/ \E r \in Reqs : ValidateBook(r)
    \/ \E r \in Reqs : AddBook(r)
    \/ DeleteDone

SpecFields == Init /\ [][NextFields]_vars

\* the create route alone, on forms with a blank title or author
NextBlank ==
    \/ \E r \in Reqs : UploadNone(r, BlankPopulation)
    \/ \E r \in Reqs : UploadTooLarge(r, BlankPopulation)
    \/ \E r \in Reqs : UploadRefused(r, BlankPopulation)
    \/ \E r \in Reqs : UploadStored(r, BlankPopulation)
    \/ \E r \in Reqs : ValidateBook(r)
    \/ \E r \in Reqs : AddBook(r)
    \/ DeleteDone

SpecBlank == Init /\ [][NextBlank]_vars

----------------------------------------------------------------------------
(* Properties of the create route *)

\* a create request whose description, as it was sent, has fewer than
\* DescriptionMin characters
ShortDescription(r) ==
    /\ reqs[r].kind = "create"
    /\ Len(reqs[r].input.body.description) < DescriptionMin

\* the file part of a create request is one upload.single refuses
UploadRejected(r) ==
    /\ reqs[r].input.file # Undefined
    /\ \/ ~fileFilter(reqs[r].input.file)
       \/ reqs[r].input.file.size > FileSizeLimit

\* file storage holds a file written by request r
HoldsFileOf(r) == \E n \in DOMAIN files : files[n] = r

C2_StoredLengths ==
    \A i \in 1..Len(books) :
        /\ Len(books[i].title) \in 1..TitleMax
        /\ Len(books[i].author) \in 1..AuthorMax
        /\ Len(books[i].description) \in DescriptionMin..DescriptionMax

\* C3: every book with an image references a file that is in file storage
\* at this moment.
C3_NoDanglingImage ==
    \A i \in 1..Len(books) :
        books[i].image # Undefined =>
            books[i].image.name \in DOMAIN files

\* the create request r went as far as saving its document
SaveAttempted(r) ==
    /\ reqs[r].kind = "create"
    /\ reqs[r].pc = "done"
    /\ reqs[r].resp.message \in
           {"Book added successfully", "Validation error",
            "Internal server error"}

\* storage still holds the file request r uploaded, under the name the
\* request was given
KeptFile(r) ==
    /\ reqs[r].file.filename \in DOMAIN files
    /\ files[reqs[r].file.filename] = r

\* C4: with local storage, a create request whose save failed is answered
\* with an error (400 "Validation error" or 500), and once its clean-up
\* has run, the file the request uploaded is in storage if and only if
\* the save succeeded.
C4_FileKeptIffSaved ==
    \A r \in Reqs :
        SaveAttempted(r) /\ reqs[r].file # Undefined /\ Finished(r) =>
            /\ reqs[r].resp.status \in {201, 400, 500}
            /\ KeptFile(r) <=> reqs[r].resp.status = 201

\* C5: with Cloudinary configured, once the clean-up of a failed create
\* request that uploaded an image has run, the cloud holds no image of
\* that request.
C5_RemoteImageDestroyed ==
    \A r \in Reqs :
        /\ reqs[r].kind = "create"
        /\ reqs[r].file # Undefined
        /\ Finished(r)
        /\ ~reqs[r].resp.success
        => \A n \in DOMAIN cloud : cloud[n] # r

----------------------------------------------------------------------------
(* Properties of the get-by-id route *)

\* C6: a get-by-id request whose id is not a well-formed identifier never
\* reaches the lookup: it has sent no query to the store, and its answer
\* is 400 "Validation failed".
C6_MalformedIdRejected ==
    \A r \in Reqs :
        reqs[r].kind = "get" /\ ~isMongoId(reqs[r].input.id) =>
            /\ reqs[r].pc = "done"
            /\ reqs[r].queries = 0
            /\ reqs[r].resp.status = 400
            /\ reqs[r].resp.message = "Validation failed"

\* a request with a malformed id of ObjectIdLen characters and one with a
\* shorter id have both been answered
C6_Witness ==
    /\ \E r \in Reqs :
          /\ reqs[r].kind = "get" /\ reqs[r].pc = "done"
          /\ Len(reqs[r].input.id) = ObjectIdLen
          /\ ~isMongoId(reqs[r].input.id)
          /\ reqs[r].resp.status = 400
    /\ \E r \in Reqs :
          /\ reqs[r].kind = "get" /\ reqs[r].pc = "done"
          /\ Len(reqs[r].input.id) < ObjectIdLen
          /\ reqs[r].resp.status = 400

\* the books whose identifier is the one the id string writes, whatever
\* the case of its hexadecimal digits
BooksWithId(id) ==
    {i \in 1..Len(books) :
        \A k \in 1..ObjectIdLen :
            ToLower(ToHexString(books[i]._id)[k]) = ToLower(id[k])}

\* the answer of request r in the next state is the book with its id, or
\* 404 "Book not found" when the collection has none
FoundOrNotFound(r) ==
    IF BooksWithId(reqs[r].input.id) # {}
    THEN /\ reqs'[r].resp.status = 200
         /\ reqs'[r].resp.success
         /\ \E i \in BooksWithId(reqs[r].input.id) :
                reqs'[r].resp.data = books[i]
    ELSE /\ reqs'[r].resp.status = 404
         /\ reqs'[r].resp.message = "Book not found"

\* the step in which the get-by-id request r with a well-formed id is
\* answered
AnswersWellFormed(r) ==
    /\ reqs[r].kind = "get"
    /\ isMongoId(reqs[r].input.id)
    /\ reqs[r].pc # "done"
    /\ reqs'[r].pc = "done"

\* The statement of C7 as it is written: every get-by-id request with a
\* well-formed id is answered with the book of that id, or with 404 "Book
\* not found" when the collection has none.
C7_AlwaysFoundOrNotFound ==
    [][\A r \in Reqs : AnswersWellFormed(r) => FoundOrNotFound(r)]_vars

\* C7, amended: a get-by-id request with a well-formed id is answered, when
\* the store's lookup succeeds, with the book of that id or with 404 "Book
\* not found" when the collection has none, and with 500 "Internal server
\* error" when the lookup fails; it is never answered with the
\* invalid-format error, and it is answered only after one lookup.
C7_WellFormedIdLookup ==
    [][\A r \in Reqs :
          /\ AnswersWellFormed(r) =>
                /\ reqs'[r].queries = 1
                /\ reqs'[r].resp.status # 400
                /\ \/ FoundOrNotFound(r)
                   \/ /\ reqs'[r].resp.status = 500
                      /\ reqs'[r].resp.message = "Internal server error"
          /\ (reqs[r].pc = "idle" /\ reqs'[r].kind = "get"
              /\ isMongoId(reqs'[r].input.id)) => reqs'[r].pc = "find"]_vars

\* a request for the id of a book of the collection has been answered
\* with that book
C7_Witness ==
    \E r \in Reqs :
        /\ reqs[r].kind = "get" /\ reqs[r].pc = "done"
        /\ reqs[r].resp.status = 200
        /\ \E i \in 1..Len(books) :
              /\ reqs[r].resp.data = books[i]
              /\ reqs[r].input.id = ToHexString(books[i]._id)

----------------------------------------------------------------------------
(* Properties of the list route *)

\* the step in which the list request r is answered with success
AnswersList(r) ==
    /\ reqs[r].kind = "list"
    /\ reqs[r].pc = "find"
    /\ reqs'[r].pc = "done"
    /\ reqs'[r].resp.success

\* the page and the limit of request r are the ones the route documents
InRange(r) == reqs[r].page >= 1 /\ reqs[r].limit \in 1..100

\* the positions in the collection of the books a search term matches
MatchingPositions(search) ==
    {i \in 1..Len(books) : searchQuery(books[i], search)}

\* the number of matching books that come before the book at position i
\* in the order query q asks for, books with equal keys in insertion order
Rank(i, q) ==
    Cardinality(
        {j \in MatchingPositions(q.search) :
            \/ Before(books[j], books[i], QuerySortBy(q), QuerySortOrder(q))
            \/ /\ ~Before(books[i], books[j], QuerySortBy(q),
                          QuerySortOrder(q))
               /\ j < i})

Min(a, b) == IF a < b THEN a ELSE b

Max(a, b) == IF a > b THEN a ELSE b

\* C8: a list request with page P >= 1 and limit L in 1..100 over N
\* matching books is answered with min(L, max(0, N - (P-1)*L)) records,
\* the k-th of them the matching book that (P-1)*L + k - 1 matching books
\* precede in the requested order.
C8_DataIsThePage ==
    [][\A r \in Reqs : AnswersList(r) /\ InRange(r) =>
          LET q == reqs[r].input
              P == reqs[r].page
              L == reqs[r].limit
              M == MatchingPositions(q.search)
              N == Cardinality(M)
              data == reqs'[r].resp.data
          IN  /\ Len(data) = Min(L, Max(0, N - (P - 1) * L))
              /\ \A k \in 1..Len(data) :
                    \E i \in M :
                        /\ data[k] = books[i]
                        /\ Rank(i, q) = (P - 1) * L + k - 1]_vars

\* page 5 with limit 10 of a collection of 47 books has been answered
\* with 7 books
C8_Witness ==
    \E r \in Reqs :
        /\ reqs[r].kind = "list" /\ reqs[r].pc = "done"
        /\ reqs[r].resp.success
        /\ reqs[r].page = 5 /\ reqs[r].limit = 10
        /\ Len(books) = 47
        /\ reqs[r].resp.pagination.totalBooks = 47
        /\ Len(reqs[r].resp.data) = 7

\* C9: a list request with page P >= 1 and limit L in 1..100 is answered
\* with totalBooks = the number of matching books, totalPages =
\* ceil(totalBooks / L), hasNextPage = (P < totalPages), hasPrevPage =
\* (P > 1), and a page beyond the last has no data, hasNextPage = FALSE and
\* hasPrevPage = TRUE.
C9_PaginationInfo ==
    [][\A r \in Reqs : AnswersList(r) /\ InRange(r) =>
          LET P == reqs[r].page
              L == reqs[r].limit
              N == Cardinality(MatchingPositions(reqs[r].input.search))
              info == reqs'[r].resp.pagination
          IN  /\ info.totalBooks = N
              /\ info.totalPages * L >= N
              /\ (info.totalPages - 1) * L < N
              /\ info.hasNextPage = (P < info.totalPages)
              /\ info.hasPrevPage = (P > 1)
              /\ (P > info.totalPages /\ P > 1) =>
                    /\ reqs'[r].resp.data = <<>>
                    /\ ~info.hasNextPage
                    /\ info.hasPrevPage]_vars

\* C10: the page and the limit a list request uses for its query and
\* reports in its response satisfy page >= 1 and 1 <= limit <= 100, and
\* are 1 and 10 when the query string has no value for them.
C10_PageAndLimitInRange ==
    \A r \in Reqs : reqs[r].kind = "list" =>
        /\ reqs[r].page >= 1
        /\ reqs[r].limit \in 1..100
        /\ reqs[r].input.page = <<>> => reqs[r].page = 1
        /\ reqs[r].input.limit = <<>> => reqs[r].limit = 10
        /\ (reqs[r].pc = "done" /\ reqs[r].resp.success) =>
              /\ reqs[r].resp.pagination.currentPage >= 1
              /\ reqs[r].resp.pagination.limit \in 1..100

\* text contains term as a literal substring, letters compared without
\* regard to case
ContainsIgnoringCase(text, term) ==
    \E i \in 1..(Len(text) - Len(term) + 1) :
        \A k \in 1..Len(term) :
            ToLower(text[i + k - 1]) = ToLower(term[k])

\* the books a search term selects when it is read as a literal substring
LiteralMatches(term) ==
    {books[i] : i \in
        {j \in 1..Len(books) :
            \/ term = <<>>
            \/ ContainsIgnoringCase(books[j].title, term)
            \/ ContainsIgnoringCase(books[j].author, term)
            \/ ContainsIgnoringCase(books[j].description, term)}}

\* C11: the books a list request matches are exactly the stored books
\* whose title, author or description contains the search term as a
\* literal substring, compared case-insensitively, and every book when the
\* term is empty or missing (read off the first page when the limit is at
\* least the size of the collection).
C11_LiteralSubstringSearch ==
    [][\A r \in Reqs :
          (AnswersList(r) /\ reqs[r].page = 1
           /\ reqs[r].limit >= Len(books)) =>
              {reqs'[r].resp.data[k] : k \in 1..Len(reqs'[r].resp.data)}
                  = LiteralMatches(reqs[r].input.search)]_vars

\* the list request r has been answered with success
ListAnswered(r) ==
    /\ reqs[r].kind = "list"
    /\ reqs[r].pc = "done"
    /\ reqs[r].resp.success

\* C12: a list answer for sortBy=title, sortOrder=asc has its records in
\* non-decreasing title order; an answer for a request without sortBy and
\* with a sortOrder other than "asc" (or none) has them in non-increasing
\* createdAt order; an answer for sortBy=title with any sortOrder other
\* than "asc" has them in non-increasing title order.
C12_SortOrder ==
    \A r \in Reqs : ListAnswered(r) =>
        LET q == reqs[r].input
            data == reqs[r].resp.data
        IN  \A k \in 1..(Len(data) - 1) :
              /\ (q.sortBy = "title" /\ q.sortOrder = "asc") =>
                    ~StrLess(data[k + 1].title, data[k].title)
              /\ (q.sortBy = "title" /\ q.sortOrder # "asc") =>
                    ~StrLess(data[k].title, data[k + 1].title)
              /\ (q.sortBy = "" /\ q.sortOrder # "asc") =>
                    data[k].createdAt >= data[k + 1].createdAt

\* a listing by ascending title has been answered with at least three
\* records, in another order than the one they were inserted in
C12_Witness ==
    \E r \in Reqs :
        /\ ListAnswered(r)
        /\ reqs[r].input.sortBy = "title"
        /\ reqs[r].input.sortOrder = "asc"
        /\ Len(reqs[r].resp.data) >= 3
        /\ reqs[r].resp.data[1] # books[1]
        /\ StrLess(reqs[r].resp.data[1].title, reqs[r].resp.data[2].title)

\* C13: the sort key a list request passes to the store is one of title,
\* author, createdAt, updatedAt, and is createdAt when the query has no
\* sortBy.
C13_SortFieldInSet ==
    \A r \in Reqs : reqs[r].kind = "list" =>
        /\ reqs[r].sortBy \in {"title", "author", "createdAt", "updatedAt"}
        /\ reqs[r].input.sortBy = "" => reqs[r].sortBy = "createdAt"

----------------------------------------------------------------------------
(* Properties of the upload *)

\* a create request whose file part has more than FileSizeLimit bytes
LargeUpload(r) ==
    /\ reqs[r].kind = "create"
    /\ reqs[r].input.file # Undefined
    /\ reqs[r].input.file.size > FileSizeLimit

\* The statement of C14 as it is written: every create request whose file
\* has more than 5 MB is answered 400 "File too large".
C14_AlwaysFileTooLarge ==
    \A r \in Reqs : (LargeUpload(r) /\ reqs[r].pc = "done") =>
        /\ reqs[r].resp.status = 400
        /\ reqs[r].resp.message = "File too large. Maximum size is 5MB."

\* C14, amended: a create request whose file is an image of more than
\* 5 MB is answered 400 "File too large"; one whose file of more than 5 MB
\* is not an image is refused by the file filter and answered 500
\* "Something went wrong!"; in both cases the request is answered by the
\* upload, neither validation nor the create handler runs for it, and no
\* step of it changes the collection.
C14_LargeUploadRejected ==
    [][\A r \in Reqs : LargeUpload(r)' =>
          /\ reqs'[r] # reqs[r] => books' = books
          /\ reqs'[r].pc = "done"
          /\ IF fileFilter(reqs'[r].input.file)
             THEN /\ reqs'[r].resp.status = 400
                  /\ reqs'[r].resp.message =
                         "File too large. Maximum size is 5MB."
             ELSE /\ reqs'[r].resp.status = 500
                  /\ reqs'[r].resp.message = "Something went wrong!"]_vars

\* a create request with a valid form and an image of more than 5 MB has
\* been answered 400 "File too large", and the collection is empty
C14_Witness ==
    \E r \in Reqs :
        /\ LargeUpload(r)
        /\ fileFilter(reqs[r].input.file)
        /\ addBookValidation(reqs[r].input.body) = <<>>
        /\ reqs[r].pc = "done"
        /\ reqs[r].resp.status = 400
        /\ books = <<>>

\* C15: a create request whose file part declares a content type that is
\* no image is answered with a 400-class error, no file of the request is
\* in file storage, and it never reaches validation or the create handler.
C15_NonImageRejectedAsClientError ==
    \A r \in Reqs :
        (/\ reqs[r].kind = "create"
         /\ reqs[r].input.file # Undefined
         /\ ~fileFilter(reqs[r].input.file)) =>
            /\ reqs[r].pc = "done"
            /\ reqs[r].resp.status \in 400..499
            /\ ~HoldsFileOf(r)

----------------------------------------------------------------------------
(* Properties of the health route and of the collection *)

\* C16: a health request is answered with success in the step it arrives
\* in, whatever the state of the service and of the store; it sends no
\* query to the store and its step leaves the collection as it is.
C16_HealthAlwaysSucceeds ==
    [][\A r \in Reqs : reqs'[r].kind = "health" =>
          /\ reqs'[r].pc = "done"
          /\ reqs'[r].resp.status = 200
          /\ reqs'[r].resp.success
          /\ reqs'[r].resp.message = "Books API is running"
          /\ reqs'[r].queries = 0
          /\ reqs'[r] # reqs[r] => (books' = books /\ nextId' = nextId)]_vars

\* a health request has been answered with success after the store
\* failed another request
C16_Witness ==
    \E r, f \in Reqs :
        /\ f < r
        /\ reqs[f].pc = "done"
        /\ reqs[f].resp.status = 500
        /\ reqs[f].resp.message = "Internal server error"
        /\ reqs[r].kind = "health"
        /\ reqs[r].pc = "done"
        /\ reqs[r].resp.success

\* C17: every step leaves the books of the collection as they are and in
\* their places; the collection changes only in the step in which a
\* create request is answered 201, and then by exactly the one book of
\* that answer; the steps of get-by-id, list, health and other requests
\* and the step that answers a request with an error leave it unchanged.
C17_AppendOnly ==
    [][/\ Len(books') >= Len(books)
       /\ SubSeq(books', 1, Len(books)) = books
       /\ books' # books =>
             \E r \in Reqs :
                 /\ reqs[r].kind = "create"
                 /\ reqs[r].pc = "handler"
                 /\ reqs'[r].pc = "done"
                 /\ reqs'[r].resp.status = 201
                 /\ books' = Append(books, reqs'[r].resp.data)
       /\ \A r \in Reqs :
             (reqs'[r] # reqs[r] /\ reqs'[r].resp.status = 201) =>
                 Len(books') = Len(books) + 1
       /\ \A r \in Reqs :
             (/\ reqs'[r] # reqs[r]
              /\ \/ reqs'[r].kind \in {"get", "list", "health", "other"}
                 \/ reqs'[r].pc = "done" /\ ~reqs'[r].resp.success) =>
                 books' = books]_vars

\* two create requests have succeeded one after the other and the
\* collection holds their two books, the first one in the first place
C17_Witness ==
    /\ Len(books) = 2
    /\ \E r1, r2 \in Reqs :
          /\ r1 # r2
          /\ reqs[r1].resp.status = 201
          /\ reqs[r2].resp.status = 201
          /\ books[1] = reqs[r1].resp.data
          /\ books[2] = reqs[r2].resp.data

\* C18: the book a successful create returns is a book of the collection
\* and has an id of ObjectIdLen hexadecimal digits; no two books of the
\* collection have the same id; no step changes the id of a book.
C18_UniqueIds ==
    [][/\ \A i, j \in 1..Len(books') :
             i # j => books'[i]._id # books'[j]._id
       /\ \A i \in 1..Len(books) :
             i <= Len(books') /\ books'[i]._id = books[i]._id
       /\ \A r \in Reqs :
             (reqs'[r].kind = "create" /\ reqs'[r].resp.status = 201) =>
                 /\ Len(ToHexString(reqs'[r].resp.data._id)) = ObjectIdLen
                 /\ isMongoId(ToHexString(reqs'[r].resp.data._id))
                 /\ \E i \in 1..Len(books') :
                       books'[i] = reqs'[r].resp.data]_vars

\* two creates have succeeded, the second answered with the second book,
\* whose id is not the id of the first
C18_Witness ==
    /\ Len(books) = 2
    /\ books[1]._id # books[2]._id
    /\ \E r \in Reqs :
          /\ reqs[r].kind = "create"
          /\ reqs[r].resp.status = 201
          /\ reqs[r].resp.data._id = books[2]._id

\* C19: any two create requests that uploaded an image were given
\* different storage names.
C19_DistinctStorageNames ==
    \A r1, r2 \in Reqs :
        (/\ r1 # r2
         /\ reqs[r1].file # Undefined
         /\ reqs[r2].file # Undefined) =>
            reqs[r1].file.filename # reqs[r2].file.filename

----------------------------------------------------------------------------
(* Order of upload and validation on the create route *)

\* the forms the clients send
AllBodies ==
    ServicePopulation.bodies \cup LengthPopulation.bodies
    \cup ListPopulation.bodies \cup QueryPopulation.bodies
    \cup FieldPopulation.bodies

\* the forms with a title, author or description that the validation
\* chains or the schema refuse
InvalidBodies ==
    {b \in AllBodies :
        \/ addBookValidation(b) # <<>>
        \/ bookSchema(SchemaCast(
               [title |-> b.title, author |-> b.author,
                description |-> b.description,
                image |-> Undefined])) # <<>>}

\* a create request with an invalid title, author or description
InvalidFields(r) ==
    /\ reqs[r].kind = "create"
    /\ reqs[r].input.body \in InvalidBodies

----------------------------------------------------------------------------
(* The deletion of an uploaded file and the response *)

\* the create request r uploaded a file and was answered 400 "Validation
\* failed"
FailedValidationWithFile(r) ==
    /\ reqs[r].kind = "create"
    /\ reqs[r].file # Undefined
    /\ reqs[r].pc = "done"
    /\ reqs[r].resp.message = "Validation failed"

\* C21: once a create request that uploaded a file has been answered 400
\* "Validation failed", storage has no file under the name of its upload:
\* the file is deleted before the response is sent.
C21_FileGoneWhenAnswered ==
    \A r \in Reqs : FailedValidationWithFile(r) =>
        reqs[r].file.filename \notin DOMAIN files

----------------------------------------------------------------------------
(* A deletion that fails *)

\* the clean-up of the create request r was issued and its deletion failed
DeleteFailed(r) == \E e \in errlog : e.req = r

\* C22: a failure of the clean-up's deletion never changes what the caller
\* receives.  The step in which a deletion fails only adds the error to
\* the log: every response, the collection and storage stay as they are,
\* and the request whose deletion failed had already been answered with
\* the 400 or 500 of its failure; a response once sent is never changed.
C22_DeleteFailureOnlyLogged ==
    [][/\ errlog' # errlog =>
            /\ reqs' = reqs
            /\ books' = books
            /\ files' = files
            /\ \A e \in errlog' \ errlog :
                  /\ reqs[e.req].pc = "done"
                  /\ reqs[e.req].resp.status \in {400, 500}
                  /\ reqs[e.req].resp.message \in
                        {"Validation failed", "Validation error",
                         "Internal server error"}
       /\ \A r \in Reqs :
            reqs[r].pc = "done" => reqs'[r].resp = reqs[r].resp]_vars

\* two create requests sent the same form and failed alike; the deletion
\* of one succeeded, the deletion of the other failed and was logged, and
\* both received the same response
C22_Witness ==
    \E r1, r2 \in Reqs :
        /\ r1 # r2
        /\ Finished(r1) /\ Finished(r2)
        /\ reqs[r1].kind = "create" /\ reqs[r2].kind = "create"
        /\ reqs[r1].file # Undefined /\ reqs[r2].file # Undefined
        /\ reqs[r1].input.body = reqs[r2].input.body
        /\ DeleteFailed(r1) /\ ~DeleteFailed(r2)
        /\ reqs[r1].resp = reqs[r2].resp
        /\ reqs[r1].resp.status \in {400, 500}

----------------------------------------------------------------------------
(* A title or an author that is blank *)

\* the forms whose title or author is empty once it is trimmed
BlankBodies ==
    {b \in BlankPopulation.bodies :
        Trim(b.title) = <<>> \/ Trim(b.author) = <<>>}

\* of these, the forms the validation chains refuse; the others reach the
\* schema
ChainRefused == {b \in BlankBodies : addBookValidation(b) # <<>>}

\* a create request with a blank title or author
BlankField(r) ==
    /\ reqs[r].kind = "create"
    /\ reqs[r].input.body \in BlankBodies

ValidationMessages == {"Validation failed", "Validation error"}

----------------------------------------------------------------------------
(* The snapshot of a list response *)

\* C24: every list response describes one snapshot of the collection, also
\* when create requests commit while the list request runs: its data is
\* the requested slice of a matching set of totalBooks books.  With skip =
\* (page - 1) * limit, data has min(limit, max(0, totalBooks - skip))
\* records, so never more than max(0, totalBooks - skip), and a response
\* with data is not on a page after totalPages.
C24_OneSnapshot ==
    \A r \in Reqs : (ListAnswered(r) /\ InRange(r)) =>
        LET info == reqs[r].resp.pagination
            skip == (reqs[r].page - 1) * reqs[r].limit
            data == reqs[r].resp.data
        IN  /\ Len(data) <= Max(0, info.totalBooks - skip)
            /\ Len(data) = Min(reqs[r].limit, Max(0, info.totalBooks - skip))
            /\ Len(data) > 0 => info.currentPage <= info.totalPages

----------------------------------------------------------------------------
(* One response to every request *)

\* request r has arrived
Arrived(r) == reqs[r].pc # "idle"

\* C25: every request is answered with exactly one response on every path.
\* No request ever has more than one response sent, a request is done
\* exactly when its one response has been sent, that response has a
\* status, and a response once sent stays as it is; and every request
\* that has arrived is answered in the end: from some point on, no request
\* that has arrived is without its response.
C25_ExactlyOneResponse ==
    /\ [](\A r \in Reqs :
            /\ reqs[r].sent <= 1
            /\ reqs[r].pc = "done" <=> reqs[r].sent = 1
            /\ reqs[r].sent = 1 =>
                  reqs[r].resp.status \in {200, 201, 400, 404, 500})
    /\ [][\A r \in Reqs :
            reqs[r].sent = 1 => reqs'[r].resp = reqs[r].resp]_vars
    /\ <>[](\A r \in Reqs : Arrived(r) => reqs[r].sent = 1)

\* each kind of request has been answered once on a failing path: a
\* create request by handleValidationErrors or by the catch block, another
\* request by the 404 handler, a lookup or a listing that failed, or the
\* global error handler
C25_Witness ==
    \E r1, r2 \in Reqs :
        /\ r1 # r2
        /\ reqs[r1].kind = "create" /\ reqs[r1].sent = 1
        /\ reqs[r1].resp.message \in
              {"Validation failed", "Internal server error"}
        /\ reqs[r2].kind # "create" /\ reqs[r2].sent = 1
        /\ ~reqs[r2].resp.success

====
